---- MODULE Spec2Model ----
(***************************************************************************)
(* Face-recognition attendance backend (src/backend/main.py).              *)
(*                                                                         *)
(* Program state: the three module-level structures student_frame_counts,  *)
(* known_face_encodings, known_face_metadata, and the two database tables  *)
(* students (class Student) and attendance (class Registration).           *)
(*                                                                         *)
(* A face encoding is a vector of float64; the model keeps its length n    *)
(* and one coordinate x, in thousandths, so that the Euclidean distance    *)
(* of two encodings is the absolute difference of their coordinates.       *)
(* TOLERANCE 0.55 is 550 thousandths.                                      *)
(*                                                                         *)
(* Specifications:                                                         *)
(*   Spec       every endpoint call as one step, from an empty database;   *)
(*   SpecAsync  process_frame and start_registration as coroutines on the  *)
(*              event loop, statement by statement, two process_frame      *)
(*              calls in flight, from a database with A and B enrolled;    *)
(*   SpecMatch  the frame matcher applied to one face, for every store of  *)
(*              up to MaxStore identities;                                 *)
(*   SpecFault  start_registration and process_frame from a students table *)
(*              holding encodings of a wrong byte length.                  *)
(*                                                                         *)
(* The database refusing a statement is an input of the calls that handle  *)
(* or survive it: the attendance insert of process_frame (dbfail, dbok)    *)
(* and the attendance delete of start_registration.  The variables hits,   *)
(* attempts, failed, prev and streak record what has happened; no action   *)
(* reads them.                                                             *)
(***************************************************************************)
EXTENDS Integers, Sequences, FiniteSets, TLC

VARIABLES
    student_frame_counts,   \* dict student_id -> frames observed
    known_face_encodings,   \* list of decoded encodings
    known_face_metadata,    \* list of [name, id], parallel to the encodings
    students,               \* table "students", in primary-key order
    attendance,             \* table "attendance", in primary-key order
    pc,                     \* position of each in-flight coroutine
    loc,                    \* locals of each in-flight coroutine
    loop,                   \* the coroutine the event loop is running
    last,                   \* the last completed call: its inputs and response
    hits,                   \* per id: matched detections since the last reset
    attempts,               \* per id: attendance inserts attempted since reset
    failed,                 \* ids whose attendance insert failed since reset
    prev,                   \* ids that had a record when the last reset began
    streak                  \* [who, k]: the k frames delivered since the reset
                            \* each showed one face, each time matched to who

vars == <<student_frame_counts, known_face_encodings, known_face_metadata,
          students, attendance, pc, loc, loop, last, hits, attempts, failed,
          prev, streak>>

memory == <<student_frame_counts, known_face_encodings, known_face_metadata>>
tasks == <<pc, loc, loop>>
ghosts == <<hits, attempts, failed, prev, streak>>

----------------------------------------------------------------------------
(* Program constants *)

FRAME_THRESHOLD == 5
TOLERANCE == 550
ElemBytes == 8
EncBytes == 1024
NoDistance == -1

(* Bounds of the model *)

MaxCount == 6
MaxDets == 2

(* Inputs *)

IDs == {"A", "B"}

Enrolments ==
    { [id |-> "A", name |-> "Ann", x |-> 0],
      [id |-> "B", name |-> "Bob", x |-> 600] }

\* What cv2.imdecode and face_encodings make of an uploaded enrolment image.
Images == {"undecodable", "noface", "face"}

\* Coordinates of the faces a camera frame may show.
DetVals == {100, 1149}

RECURSIVE SeqsUpTo(_, _)
SeqsUpTo(S, n) ==
    IF n = 0 THEN {<<>>}
    ELSE LET shorter == SeqsUpTo(S, n - 1)
         IN shorter \cup {Append(s, x) : s \in {t \in shorter : Len(t) = n - 1}, x \in S}

Frames == SeqsUpTo(DetVals, MaxDets)

----------------------------------------------------------------------------
(* Encodings *)

\* face_recognition.face_encodings: one 128-element float64 vector per face.
Embed(x) == [n |-> EncBytes \div ElemBytes, x |-> x]

\* ndarray.tobytes()
tobytes(e) == [nbytes |-> e.n * ElemBytes, x |-> e.x]

\* np.frombuffer(b, dtype=np.float64) raises ValueError unless the buffer
\* is a whole number of elements.
frombuffer_raises(b) == b.nbytes % ElemBytes # 0
frombuffer(b) == [n |-> b.nbytes \div ElemBytes, x |-> b.x]

Dist(u, v) == IF u >= v THEN u - v ELSE v - u

\* face_recognition.face_distance: the norm of the difference to each known
\* encoding; the subtraction raises unless every known encoding has the
\* length of the encoding compared.
face_distance_raises(encs, e) == \E i \in 1..Len(encs) : encs[i].n # e.n
face_distance(encs, e) == [i \in 1..Len(encs) |-> Dist(encs[i].x, e.x)]

RECURSIVE ArgminFrom(_, _, _)
ArgminFrom(ds, i, best) ==
    IF i > Len(ds) THEN best
    ELSE ArgminFrom(ds, i + 1, IF ds[i] < ds[best] THEN i ELSE best)

RECURSIVE ArgminLastFrom(_, _, _)
ArgminLastFrom(ds, i, best) ==
    IF i > Len(ds) THEN best
    ELSE ArgminLastFrom(ds, i + 1, IF ds[i] <= ds[best] THEN i ELSE best)

argminLast(ds) == ArgminLastFrom(ds, 2, 1)

\* np.argmin: the first index of the minimum.
argmin(ds) == ArgminFrom(ds, 2, 1)

\* round(d, 2) on thousandths: to the nearest hundredth, halves to even.
Round2(d) ==
    LET q == d \div 10
        r == d % 10
    IN IF r < 5 THEN q * 10
       ELSE IF r > 5 THEN (q + 1) * 10
       ELSE IF q % 2 = 0 THEN q * 10 ELSE (q + 1) * 10

----------------------------------------------------------------------------
(* Frame matcher: lines 169-182 of process_frame for one face encoding. *)

NoId == "-"

Resolve(encs, meta, e) ==
    LET ds == face_distance(encs, e)
    IN IF Len(ds) > 0
       THEN LET b == argmin(ds)
            IN IF ds[b] < TOLERANCE
               THEN [name |-> meta[b].name, id |-> meta[b].id,
                     distance |-> Round2(ds[b]), matched |-> TRUE]
               ELSE [name |-> "Unknown", id |-> NoId,
                     distance |-> Round2(ds[b]), matched |-> FALSE]
       ELSE [name |-> "Unknown", id |-> NoId,
             distance |-> NoDistance, matched |-> FALSE]

----------------------------------------------------------------------------
(* Attendance table: class Registration, student_id unique (line 46). *)

HasRecord(att, sid) == \E i \in 1..Len(att) : att[i].student_id = sid

\* db.add(new_record); db.commit() inside try/except with db.rollback():
\* the row is added unless the database refuses it (the unique constraint
\* on student_id, or any other failure, seen here as dbok = FALSE).
InsertRegistration(att, rec, dbok) ==
    IF dbok /\ ~HasRecord(att, rec.student_id) THEN Append(att, rec) ELSE att

----------------------------------------------------------------------------
(* Attendance recorder: lines 184-197 of process_frame.                    *)
(* m carries what one call has done so far: the counters, the attendance   *)
(* table, the detected list, whether an exception is propagating, and the  *)
(* bookkeeping of matches, insert attempts and failed inserts.             *)

\* The empty dict of line 28, and d[k] = v.
EmptyDict == [k \in {} |-> 0]

SetItem(d, k, v) == [j \in DOMAIN d \cup {k} |-> IF j = k THEN v ELSE d[j]]

Entry(r) == [name |-> r.name, distance |-> r.distance]

\* Record with the insert made on every match at or above the threshold,
\* into a log that takes duplicates.
RecordAtLeast(m, r, old, dbok, idx) ==
    LET counts == SetItem(m.counts, r.id, old + 1)
        commit == counts[r.id] >= FRAME_THRESHOLD
        rec == [student_id |-> r.id, student_name |-> r.name]
        att == IF commit /\ dbok THEN Append(m.att, rec) ELSE m.att
        lost == commit /\ att = m.att
    IN [m EXCEPT !.counts = counts,
                 !.att = att,
                 !.hits[r.id] = @ + 1,
                 !.attempts[r.id] = IF commit THEN @ + 1 ELSE @,
                 !.failed = IF lost THEN @ \cup {r.id} ELSE @,
                 !.failedAt = IF lost THEN @ \cup {idx} ELSE @]

\* Record with the threshold compared before the increment.
RecordLate(m, r, old, dbok, idx) ==
    LET counts == SetItem(m.counts, r.id, old + 1)
        commit == old = FRAME_THRESHOLD
        rec == [student_id |-> r.id, student_name |-> r.name]
        att == IF commit THEN InsertRegistration(m.att, rec, dbok) ELSE m.att
        lost == commit /\ att = m.att
    IN [m EXCEPT !.counts = counts,
                 !.att = att,
                 !.hits[r.id] = @ + 1,
                 !.attempts[r.id] = IF commit THEN @ + 1 ELSE @,
                 !.failed = IF lost THEN @ \cup {r.id} ELSE @,
                 !.failedAt = IF lost THEN @ \cup {idx} ELSE @]

\* Record without the try/except around the insert: the exception propagates.
RecordNoCatch(m, r, old, dbok, idx) ==
    LET counts == SetItem(m.counts, r.id, old + 1)
        commit == counts[r.id] = FRAME_THRESHOLD
        rec == [student_id |-> r.id, student_name |-> r.name]
        att == IF commit THEN InsertRegistration(m.att, rec, dbok) ELSE m.att
        lost == commit /\ att = m.att
    IN [m EXCEPT !.counts = counts,
                 !.att = att,
                 !.raised = lost,
                 !.hits[r.id] = @ + 1,
                 !.attempts[r.id] = IF commit THEN @ + 1 ELSE @,
                 !.failed = IF lost THEN @ \cup {r.id} ELSE @,
                 !.failedAt = IF lost THEN @ \cup {idx} ELSE @]

\* Record with the threshold compared for the first face of a frame only.
RecordFirstFace(m, r, old, dbok, idx) ==
    LET counts == SetItem(m.counts, r.id, old + 1)
        commit == idx = 1 /\ counts[r.id] = FRAME_THRESHOLD
        rec == [student_id |-> r.id, student_name |-> r.name]
        att == IF commit THEN InsertRegistration(m.att, rec, dbok) ELSE m.att
        lost == commit /\ att = m.att
    IN [m EXCEPT !.counts = counts,
                 !.att = att,
                 !.hits[r.id] = @ + 1,
                 !.attempts[r.id] = IF commit THEN @ + 1 ELSE @,
                 !.failed = IF lost THEN @ \cup {r.id} ELSE @,
                 !.failedAt = IF lost THEN @ \cup {idx} ELSE @]

\* Record with the insert made on every match at or above the threshold for
\* which the table holds no record yet.
RecordRetry(m, r, old, dbok, idx) ==
    LET counts == SetItem(m.counts, r.id, old + 1)
        commit == counts[r.id] >= FRAME_THRESHOLD /\ ~HasRecord(m.att, r.id)
        rec == [student_id |-> r.id, student_name |-> r.name]
        att == IF commit THEN InsertRegistration(m.att, rec, dbok) ELSE m.att
        lost == commit /\ att = m.att
    IN [m EXCEPT !.counts = counts,
                 !.att = att,
                 !.hits[r.id] = @ + 1,
                 !.attempts[r.id] = IF commit THEN @ + 1 ELSE @,
                 !.failed = IF lost THEN @ \cup {r.id} ELSE @,
                 !.failedAt = IF lost THEN @ \cup {idx} ELSE @]

\* Line 184, the store of `student_frame_counts[student_id] += 1`, with the
\* value `old` the load obtained, then lines 185-191.
Record(m, r, old, dbok, idx) ==
    LET counts == SetItem(m.counts, r.id, old + 1)
        commit == counts[r.id] = FRAME_THRESHOLD
        rec == [student_id |-> r.id, student_name |-> r.name]
        att == IF commit THEN InsertRegistration(m.att, rec, dbok) ELSE m.att
        lost == commit /\ att = m.att
    IN [m EXCEPT !.counts = counts,
                 !.att = att,
                 !.hits[r.id] = @ + 1,
                 !.attempts[r.id] = IF commit THEN @ + 1 ELSE @,
                 !.failed = IF lost THEN @ \cup {r.id} ELSE @,
                 !.failedAt = IF lost THEN @ \cup {idx} ELSE @]

\* Detection with the increment made before the tolerance test.
DetectionCountAll(m, encs, meta, det, dbok, idx) ==
    LET e == Embed(det)
    IN IF face_distance_raises(encs, e) THEN [m EXCEPT !.raised = TRUE]
       ELSE LET r == Resolve(encs, meta, e)
                ds == face_distance(encs, e)
            IN IF Len(ds) = 0 THEN [m EXCEPT !.out = Append(@, Entry(r))]
               ELSE LET near == [r EXCEPT !.id = meta[argmin(ds)].id]
                        m2 == Record(m, near, m.counts[near.id], dbok, idx)
                    IN [m2 EXCEPT !.out = Append(@, Entry(r))]

\* Detection with a per-frame deduplication: an identity already resolved
\* by an earlier face of the frame is reported but not counted again.
DetectionDedup(m, encs, meta, det, dbok, idx) ==
    LET e == Embed(det)
    IN IF face_distance_raises(encs, e) THEN [m EXCEPT !.raised = TRUE]
       ELSE LET r == Resolve(encs, meta, e)
            IN IF ~r.matched THEN [m EXCEPT !.out = Append(@, Entry(r))]
               ELSE IF r.id \notin DOMAIN m.counts
                    THEN [m EXCEPT !.raised = TRUE]
                    ELSE IF \E j \in 1..Len(m.out) : m.out[j].name = r.name
                    THEN [m EXCEPT !.out = Append(@, Entry(r))]
                    ELSE LET m2 == Record(m, r, m.counts[r.id], dbok, idx)
                         IN [m2 EXCEPT !.out = Append(@, Entry(r))]

\* Detection with a reset on miss: a face resolved to Unknown returns every
\* counter still under the threshold to 0.
DetectionResetOnMiss(m, encs, meta, det, dbok, idx) ==
    LET e == Embed(det)
    IN IF face_distance_raises(encs, e) THEN [m EXCEPT !.raised = TRUE]
       ELSE LET r == Resolve(encs, meta, e)
            IN IF ~r.matched
               THEN [m EXCEPT !.out = Append(@, Entry(r)),
                              !.counts = [k \in DOMAIN m.counts |->
                                            IF m.counts[k] < FRAME_THRESHOLD
                                            THEN 0 ELSE m.counts[k]]]
               ELSE IF r.id \notin DOMAIN m.counts
                    THEN [m EXCEPT !.raised = TRUE]
                    ELSE LET m2 == Record(m, r, m.counts[r.id], dbok, idx)
                         IN [m2 EXCEPT !.out = Append(@, Entry(r))]

\* One iteration of the loop of line 168.
Detection(m, encs, meta, det, dbok, idx) ==
    LET e == Embed(det)
    IN IF face_distance_raises(encs, e) THEN [m EXCEPT !.raised = TRUE]
       ELSE LET r == Resolve(encs, meta, e)
            IN IF ~r.matched THEN [m EXCEPT !.out = Append(@, Entry(r))]
               ELSE IF r.id \notin DOMAIN m.counts
                    THEN [m EXCEPT !.raised = TRUE]
                    ELSE LET m2 == Record(m, r, m.counts[r.id], dbok, idx)
                         IN [m2 EXCEPT !.out = Append(@, Entry(r))]

\* The whole loop; an exception ends it.
RECURSIVE RunLoop(_, _, _, _, _, _)
RunLoop(m, encs, meta, dets, dbfail, i) ==
    IF i > Len(dets) \/ m.raised THEN m
    ELSE RunLoop(Detection(m, encs, meta, dets[i], i \notin dbfail, i),
                 encs, meta, dets, dbfail, i + 1)

Work(counts, att, h, a, f) ==
    [counts |-> counts, att |-> att, out |-> <<>>, raised |-> FALSE,
     hits |-> h, attempts |-> a, failed |-> f, failedAt |-> {}]

----------------------------------------------------------------------------
(* Session reset: lines 126-135 of start_registration. *)

\* The loop of line 127 over the rows db.query(Student).all() returned;
\* np.frombuffer raising ends it with what was loaded so far.
RECURSIVE LoadRows(_, _)
LoadRows(mem, rows) ==
    IF rows = <<>> THEN mem
    ELSE LET s == Head(rows)
         IN IF frombuffer_raises(s.encoding_binary)
            THEN [mem EXCEPT !.raised = TRUE]
            ELSE LoadRows(
                   [encs |-> Append(mem.encs, frombuffer(s.encoding_binary)),
                    meta |-> Append(mem.meta,
                                    [name |-> s.student_name, id |-> s.student_id]),
                    counts |-> SetItem(mem.counts, s.student_id, 0),
                    raised |-> FALSE],
                   Tail(rows))

\* The reset without known_face_encodings.clear() and its two companions.
ClearedNot ==
    [encs |-> known_face_encodings, meta |-> known_face_metadata,
     counts |-> student_frame_counts, raised |-> FALSE]

\* The reset with student_frame_counts.clear() alone: the two lists are kept.
ClearedCountsOnly ==
    [encs |-> known_face_encodings, meta |-> known_face_metadata,
     counts |-> EmptyDict, raised |-> FALSE]

\* Lines 120-122.
Cleared == [encs |-> <<>>, meta |-> <<>>, counts |-> EmptyDict, raised |-> FALSE]

----------------------------------------------------------------------------
(* Students table: class Student, student_id unique (line 53). *)

HasStudent(tbl, sid) == \E i \in 1..Len(tbl) : tbl[i].student_id = sid

RECURSIVE Without(_, _)
Without(tbl, sid) ==
    IF tbl = <<>> THEN <<>>
    ELSE IF Head(tbl).student_id = sid THEN Without(Tail(tbl), sid)
         ELSE <<Head(tbl)>> \o Without(Tail(tbl), sid)

\* Lines 93-96: the row add_student stores.
Row(en) ==
    [student_id |-> en.id, student_name |-> en.name,
     encoding_binary |-> tobytes(Embed(en.x))]

EnrolmentOf(sid) == CHOOSE en \in Enrolments : en.id = sid

IdsOf(tbl) == {tbl[i].student_id : i \in 1..Len(tbl)}

----------------------------------------------------------------------------
(* Calls *)

Calls == {"P1", "P2", "S"}

NoLocals ==
    [dets |-> <<>>, i |-> 0, tmp |-> 0,
     r |-> [name |-> "Unknown", id |-> NoId, distance |-> NoDistance,
            matched |-> FALSE],
     out |-> <<>>, failedAt |-> {}, rows |-> <<>>]

\* What the last completed call was and returned: its endpoint, its outcome,
\* the number of faces found in its frame, its "detected" list, and the
\* detections whose attendance insert raised.
Reply(op, status, ndets, detected, failedAt) ==
    [op |-> op, status |-> status, ndets |-> ndets, detected |-> detected,
     failedAt |-> failedAt]

ZeroOf(S) == [k \in S |-> 0]

\* No frame since the reset; and frames not all of one face of one identity.
NoFrames == [who |-> "-", k |-> 0]
Mixed == [who |-> "*", k |-> 0]

\* The streak after a call that found `n` faces and took the match counts
\* from h to h2.
Streak(st, n, ok, h, h2) ==
    LET got == {sid \in IDs : h2[sid] > h[sid]}
    IN IF ok /\ n = 1 /\ got # {} /\ st.who \in got \cup {"-"}
       THEN [who |-> CHOOSE sid \in got : TRUE, k |-> st.k + 1]
       ELSE Mixed

Init ==
    /\ student_frame_counts = EmptyDict
    /\ known_face_encodings = <<>>
    /\ known_face_metadata = <<>>
    /\ students = <<>>
    /\ attendance = <<>>
    /\ pc = [c \in Calls |-> "idle"]
    /\ loc = [c \in Calls |-> NoLocals]
    /\ loop = "none"
    /\ last = Reply("startup", "ok", 0, <<>>, {})
    /\ hits = ZeroOf(IDs)
    /\ attempts = ZeroOf(IDs)
    /\ failed = {}
    /\ prev = {}
    /\ streak = NoFrames

\* add_student without the two early returns of lines 83-90: a row is stored
\* whatever the upload held.
add_studentUnchecked ==
    \E en \in Enrolments, img \in Images :
        /\ UNCHANGED <<memory, attendance, tasks, ghosts>>
        /\ IF ~HasStudent(students, en.id)
           THEN /\ students' = Append(students, Row(en))
                /\ last' = Reply("add_student",
                                 IF img = "undecodable" THEN "decode_error"
                                 ELSE IF img = "noface" THEN "no_face" ELSE "ok",
                                 0, <<>>, {})
           ELSE /\ last' = Reply("add_student", "error", 0, <<>>, {})
                /\ UNCHANGED students

\* add_student, lines 78-100.
add_student ==
    \E en \in Enrolments, img \in Images :
        /\ UNCHANGED <<memory, attendance, tasks, ghosts>>
        /\ IF img = "undecodable"
           THEN /\ last' = Reply("add_student", "decode_error", 0, <<>>, {})
                /\ UNCHANGED students
           ELSE IF img = "noface"
           THEN /\ last' = Reply("add_student", "no_face", 0, <<>>, {})
                /\ UNCHANGED students
           ELSE IF ~HasStudent(students, en.id)
           THEN /\ students' = Append(students, Row(en))
                /\ last' = Reply("add_student", "ok", 0, <<>>, {})
           ELSE /\ last' = Reply("add_student", "error", 0, <<>>, {})
                /\ UNCHANGED students

\* The removal cascading to the student's attendance record.
RECURSIVE WithoutRecord(_, _)
WithoutRecord(att, sid) ==
    IF att = <<>> THEN <<>>
    ELSE IF Head(att).student_id = sid THEN WithoutRecord(Tail(att), sid)
         ELSE <<Head(att)>> \o WithoutRecord(Tail(att), sid)

RemoveStudentCascade(tbl, att, sid) ==
    [students |-> Without(tbl, sid), attendance |-> WithoutRecord(att, sid)]

\* db.delete(student); db.commit(), lines 112-113.
RemoveStudent(tbl, att, sid) == [students |-> Without(tbl, sid), attendance |-> att]

\* delete_student that also drops the removed identity's counter.
delete_studentLive ==
    \E sid \in IDs :
        /\ UNCHANGED <<known_face_encodings, known_face_metadata, tasks, ghosts>>
        /\ IF ~HasStudent(students, sid)
           THEN /\ last' = Reply("delete_student", "not_found", 0, <<>>, {})
                /\ UNCHANGED <<students, attendance, student_frame_counts>>
           ELSE /\ students' = RemoveStudent(students, attendance, sid).students
                /\ attendance' = RemoveStudent(students, attendance, sid).attendance
                /\ student_frame_counts' =
                      [k \in DOMAIN student_frame_counts \ {sid} |->
                          student_frame_counts[k]]
                /\ last' = Reply("delete_student", "ok", 0, <<>>, {})

\* delete_student, lines 103-115.
delete_student ==
    \E sid \in IDs :
        /\ UNCHANGED <<memory, tasks, ghosts>>
        /\ IF ~HasStudent(students, sid)
           THEN /\ last' = Reply("delete_student", "not_found", 0, <<>>, {})
                /\ UNCHANGED <<students, attendance>>
           ELSE /\ students' = RemoveStudent(students, attendance, sid).students
                /\ attendance' = RemoveStudent(students, attendance, sid).attendance
                /\ last' = Reply("delete_student", "ok", 0, <<>>, {})

\* start_registration without the delete of lines 123-124: the attendance
\* table is carried into the new session.
start_registrationKeepLog ==
    /\ UNCHANGED <<students, tasks, attendance>>
    /\ hits' = ZeroOf(IDs)
    /\ attempts' = ZeroOf(IDs)
    /\ failed' = {}
    /\ prev' = {sid \in IDs : HasRecord(attendance, sid)}
    /\ streak' = NoFrames
    /\ LET mem == LoadRows(Cleared, students)
       IN /\ student_frame_counts' = mem.counts
          /\ known_face_encodings' = mem.encs
          /\ known_face_metadata' = mem.meta
          /\ last' = Reply("start_registration",
                           IF mem.raised THEN "load_error" ELSE "ok",
                           0, <<>>, {})

\* start_registration, lines 118-137, as one step of the event loop.
start_registration ==
    \E dbok \in BOOLEAN :
        /\ UNCHANGED <<students, tasks>>
        /\ hits' = ZeroOf(IDs)
        /\ attempts' = ZeroOf(IDs)
        /\ failed' = {}
        /\ prev' = {sid \in IDs : HasRecord(attendance, sid)}
        /\ streak' = NoFrames
        /\ IF ~dbok
           THEN /\ student_frame_counts' = Cleared.counts
                /\ known_face_encodings' = Cleared.encs
                /\ known_face_metadata' = Cleared.meta
                /\ UNCHANGED attendance
                /\ last' = Reply("start_registration", "error", 0, <<>>, {})
           ELSE LET mem == LoadRows(Cleared, students)
                IN /\ student_frame_counts' = mem.counts
                   /\ known_face_encodings' = mem.encs
                   /\ known_face_metadata' = mem.meta
                   /\ attendance' = <<>>
                   /\ last' = Reply("start_registration",
                                    IF mem.raised THEN "load_error" ELSE "ok",
                                    0, <<>>, {})

\* The detections of `dets` at which lines 185-189 attempt an insert.
AttemptsAt(dets) ==
    LET m == RunLoop(Work(student_frame_counts, attendance, hits, attempts,
                          failed),
                     known_face_encodings, known_face_metadata, dets,
                     1..Len(dets), 1)
    IN m.failedAt

\* process_frame, lines 153-199, as one step of the event loop.
process_frame ==
    /\ UNCHANGED <<known_face_encodings, known_face_metadata, students,
                   tasks, prev>>
    /\ \/ /\ last' = Reply("process_frame", "decode_error", 0, <<>>, {})
          /\ streak' = Mixed
          /\ UNCHANGED <<student_frame_counts, attendance, hits, attempts,
                         failed>>
       \/ \E dets \in Frames :
          \E dbfail \in SUBSET AttemptsAt(dets) :
          \E m \in {RunLoop(Work(student_frame_counts, attendance, hits,
                                 attempts, failed),
                            known_face_encodings, known_face_metadata,
                            dets, dbfail, 1)} :
             /\ \A k \in DOMAIN m.counts : m.counts[k] <= MaxCount
             /\ student_frame_counts' = m.counts
             /\ attendance' = m.att
             /\ hits' = m.hits
             /\ attempts' = m.attempts
             /\ failed' = m.failed
             /\ streak' = Streak(streak, Len(dets), ~m.raised, hits, m.hits)
             /\ last' = IF m.raised
                        THEN Reply("process_frame", "error", Len(dets), <<>>,
                                   m.failedAt)
                        ELSE Reply("process_frame", "ok", Len(dets), m.out,
                                   m.failedAt)

Next ==
    \/ add_student
    \/ delete_student
    \/ start_registration
    \/ process_frame

Spec == Init /\ [][Next]_vars

----------------------------------------------------------------------------
(* The same two endpoints step by step.                                    *)
(*                                                                         *)
(* process_frame and start_registration are `async def`: they run on the   *)
(* event loop, one at a time, and another coroutine runs only while one is *)
(* at an await.  The only await of process_frame is `await file.read()`    *)
(* (line 155); start_registration has none.  P1 and P2 are two requests    *)
(* to /process-frame, S one request to /start-registration.                *)

PFs == {"P1", "P2"}

\* Handlers run on threads, which switch anywhere.
MayRunAny(c) == TRUE

\* Whether the event loop may run a step of coroutine c.
MayRun(c) == loop = "none" \/ loop = c

Finish(c, reply) ==
    /\ last' = reply
    /\ pc' = [pc EXCEPT ![c] = "idle"]
    /\ loc' = [loc EXCEPT ![c] = NoLocals]
    /\ loop' = "none"

\* The request arrives and the handler waits at line 155.
pf_call(p) ==
    /\ pc[p] = "idle"
    /\ pc' = [pc EXCEPT ![p] = "read"]
    /\ UNCHANGED <<memory, students, attendance, loc, loop, last, ghosts>>

\* Lines 156-166: the upload is decoded and its faces are encoded.
pf_begin(p) ==
    /\ pc[p] = "read"
    /\ MayRun(p)
    /\ UNCHANGED <<memory, students, attendance, ghosts>>
    /\ \/ Finish(p, Reply("process_frame", "decode_error", 0, <<>>, {}))
       \/ \E dets \in Frames :
             /\ \A k \in DOMAIN student_frame_counts :
                   student_frame_counts[k] + Len(dets) <= MaxCount
             /\ pc' = [pc EXCEPT ![p] = "match"]
             /\ loc' = [loc EXCEPT ![p] = [NoLocals EXCEPT !.dets = dets, !.i = 1]]
             /\ loop' = p
             /\ UNCHANGED last

\* Lines 168-184 for the next face: it is resolved, and for a match the
\* counter is loaded.
pf_match(p) ==
    /\ pc[p] = "match"
    /\ MayRun(p)
    /\ loc[p].i <= Len(loc[p].dets)
    /\ UNCHANGED <<memory, students, attendance, ghosts>>
    /\ LET e == Embed(loc[p].dets[loc[p].i])
           r == Resolve(known_face_encodings, known_face_metadata, e)
       IN IF face_distance_raises(known_face_encodings, e)
          THEN Finish(p, Reply("process_frame", "error", Len(loc[p].dets),
                               <<>>, loc[p].failedAt))
          ELSE IF ~r.matched
          THEN /\ loc' = [loc EXCEPT ![p].out = Append(@, Entry(r)),
                                     ![p].i = @ + 1]
               /\ loop' = p
               /\ UNCHANGED <<pc, last>>
          ELSE IF r.id \notin DOMAIN student_frame_counts
          THEN Finish(p, Reply("process_frame", "error", Len(loc[p].dets),
                               <<>>, loc[p].failedAt))
          ELSE /\ loc' = [loc EXCEPT ![p].r = r,
                                     ![p].tmp = student_frame_counts[r.id]]
               /\ pc' = [pc EXCEPT ![p] = "store"]
               /\ loop' = p
               /\ UNCHANGED last

\* Lines 184-197 for a match: the incremented counter is stored, the insert
\* is made at the threshold, the entry is appended.
pf_store(p) ==
    /\ pc[p] = "store"
    /\ MayRun(p)
    /\ UNCHANGED <<known_face_encodings, known_face_metadata, students, last,
                   prev>>
    /\ \E dbok \in (IF loc[p].tmp + 1 = FRAME_THRESHOLD THEN BOOLEAN ELSE {TRUE}) :
       \E m \in {Record([Work(student_frame_counts, attendance, hits,
                              attempts, failed)
                            EXCEPT !.failedAt = loc[p].failedAt],
                        loc[p].r, loc[p].tmp, dbok, loc[p].i)} :
          /\ student_frame_counts' = m.counts
          /\ attendance' = m.att
          /\ hits' = m.hits
          /\ attempts' = m.attempts
          /\ failed' = m.failed
          /\ streak' = Mixed
          /\ IF m.raised
             THEN /\ pc' = [pc EXCEPT ![p] = "idle"]
                  /\ loc' = [loc EXCEPT ![p] = NoLocals]
                  /\ loop' = "none"
             ELSE /\ pc' = [pc EXCEPT ![p] = "match"]
                  /\ loc' = [loc EXCEPT ![p].out = Append(@, Entry(loc[p].r)),
                                        ![p].i = @ + 1,
                                        ![p].failedAt = m.failedAt,
                                        ![p].r = NoLocals.r,
                                        ![p].tmp = 0]
                  /\ loop' = p

\* Line 199.
pf_return(p) ==
    /\ pc[p] = "match"
    /\ MayRun(p)
    /\ loc[p].i > Len(loc[p].dets)
    /\ UNCHANGED <<memory, students, attendance, ghosts>>
    /\ Finish(p, Reply("process_frame", "ok", Len(loc[p].dets), loc[p].out,
                       loc[p].failedAt))

\* Lines 120-122.
sr_clear ==
    /\ pc["S"] = "idle"
    /\ MayRun("S")
    /\ student_frame_counts' = Cleared.counts
    /\ known_face_encodings' = Cleared.encs
    /\ known_face_metadata' = Cleared.meta
    /\ hits' = ZeroOf(IDs)
    /\ attempts' = ZeroOf(IDs)
    /\ failed' = {}
    /\ prev' = {sid \in IDs : HasRecord(attendance, sid)}
    /\ streak' = NoFrames
    /\ pc' = [pc EXCEPT !["S"] = "delete"]
    /\ loop' = "S"
    /\ UNCHANGED <<students, attendance, loc, last>>

\* Lines 123-127: the attendance rows are deleted and the students queried.
sr_delete ==
    /\ pc["S"] = "delete"
    /\ MayRun("S")
    /\ UNCHANGED <<memory, students, ghosts>>
    /\ \/ /\ attendance' = <<>>
          /\ pc' = [pc EXCEPT !["S"] = "load"]
          /\ loc' = [loc EXCEPT !["S"].rows = students]
          /\ loop' = "S"
          /\ UNCHANGED last
       \/ /\ UNCHANGED attendance
          /\ Finish("S", Reply("start_registration", "error", 0, <<>>, {}))

\* Lines 128-135 for the next row.
sr_load ==
    /\ pc["S"] = "load"
    /\ MayRun("S")
    /\ loc["S"].rows # <<>>
    /\ UNCHANGED <<students, attendance, ghosts>>
    /\ \E mem \in {LoadRows([encs |-> known_face_encodings,
                             meta |-> known_face_metadata,
                             counts |-> student_frame_counts,
                             raised |-> FALSE],
                            <<Head(loc["S"].rows)>>)} :
          /\ known_face_encodings' = mem.encs
          /\ known_face_metadata' = mem.meta
          /\ student_frame_counts' = mem.counts
          /\ IF mem.raised
             THEN Finish("S", Reply("start_registration", "load_error", 0,
                                    <<>>, {}))
             ELSE /\ loc' = [loc EXCEPT !["S"].rows = Tail(@)]
                  /\ loop' = "S"
                  /\ UNCHANGED <<pc, last>>

\* Line 137.
sr_return ==
    /\ pc["S"] = "load"
    /\ MayRun("S")
    /\ loc["S"].rows = <<>>
    /\ UNCHANGED <<memory, students, attendance, ghosts>>
    /\ Finish("S", Reply("start_registration", "ok", 0, <<>>, {}))

\* The process starts on a database in which A and B are enrolled.
InitAsync ==
    /\ student_frame_counts = EmptyDict
    /\ known_face_encodings = <<>>
    /\ known_face_metadata = <<>>
    /\ students = <<Row(EnrolmentOf("A")), Row(EnrolmentOf("B"))>>
    /\ attendance = <<>>
    /\ pc = [c \in Calls |-> "idle"]
    /\ loc = [c \in Calls |-> NoLocals]
    /\ loop = "none"
    /\ last = Reply("startup", "ok", 0, <<>>, {})
    /\ hits = ZeroOf(IDs)
    /\ attempts = ZeroOf(IDs)
    /\ failed = {}
    /\ prev = {}
    /\ streak = NoFrames

NextAsync ==
    \/ \E p \in PFs : pf_call(p)
    \/ \E p \in PFs : pf_begin(p)
    \/ \E p \in PFs : pf_match(p)
    \/ \E p \in PFs : pf_store(p)
    \/ \E p \in PFs : pf_return(p)
    \/ sr_clear
    \/ sr_delete
    \/ sr_load
    \/ sr_return

SpecAsync == InitAsync /\ [][NextAsync]_vars

----------------------------------------------------------------------------
(* The frame matcher on its own: any store of up to MaxStore identities    *)
(* and one face.                                                           *)

MaxStore == 3

MatchIds == <<"A", "B", "C", "D">>
MatchNames == <<"Ann", "Bob", "Cat", "Dan">>
EncVals == {0, 600, 1200}
MatchDetVals == {0, 50, 300, 549, 550, 600, 1150}

MatchStores == UNION {[1..n -> EncVals] : n \in 0..MaxStore}

InitMatch ==
    /\ \E xs \in MatchStores :
          /\ known_face_encodings = [i \in 1..Len(xs) |-> Embed(xs[i])]
          /\ known_face_metadata =
                [i \in 1..Len(xs) |-> [name |-> MatchNames[i], id |-> MatchIds[i]]]
          /\ student_frame_counts = [k \in {MatchIds[i] : i \in 1..Len(xs)} |-> 0]
          /\ students =
                [i \in 1..Len(xs) |->
                    [student_id |-> MatchIds[i], student_name |-> MatchNames[i],
                     encoding_binary |-> tobytes(Embed(xs[i]))]]
    /\ attendance = <<>>
    /\ pc = [c \in Calls |-> "idle"]
    /\ loc = [c \in Calls |-> NoLocals]
    /\ loop = "none"
    /\ last = Reply("start_registration", "ok", 0, <<>>, {})
    /\ hits = ZeroOf(IDs)
    /\ attempts = ZeroOf(IDs)
    /\ failed = {}
    /\ prev = {}
    /\ streak = NoFrames

\* Lines 169-182 applied to one face.
resolve_one ==
    /\ loc["P1"].dets = <<>>
    /\ \E x \in MatchDetVals :
          loc' = [loc EXCEPT !["P1"].dets = <<x>>,
                             !["P1"].r = Resolve(known_face_encodings,
                                                 known_face_metadata, Embed(x))]
    /\ UNCHANGED <<memory, students, attendance, pc, loop, last, ghosts>>

SpecMatch == InitMatch /\ [][resolve_one]_vars

----------------------------------------------------------------------------
(* The students table as another writer may have left it: rows whose       *)
(* encoding is not EncBytes long.                                          *)

Widths == {EncBytes, EncBytes - 4, EncBytes \div 2}

InitFault ==
    /\ student_frame_counts = EmptyDict
    /\ known_face_encodings = <<>>
    /\ known_face_metadata = <<>>
    /\ \E wa \in Widths, wb \in Widths :
          students =
             << [Row(EnrolmentOf("A")) EXCEPT !.encoding_binary.nbytes = wa],
                [Row(EnrolmentOf("B")) EXCEPT !.encoding_binary.nbytes = wb] >>
    /\ attendance = <<>>
    /\ pc = [c \in Calls |-> "idle"]
    /\ loc = [c \in Calls |-> NoLocals]
    /\ loop = "none"
    /\ last = Reply("startup", "ok", 0, <<>>, {})
    /\ hits = ZeroOf(IDs)
    /\ attempts = ZeroOf(IDs)
    /\ failed = {}
    /\ prev = {}
    /\ streak = NoFrames

NextFault ==
    \/ start_registration
    \/ process_frame

SpecFault == InitFault /\ [][NextFault]_vars

----------------------------------------------------------------------------
(* Properties *)

RecordsOf(att, sid) == {i \in 1..Len(att) : att[i].student_id = sid}
RowsOf(att, sid) == {att[i] : i \in RecordsOf(att, sid)}
Named(detected, name) == {i \in 1..Len(detected) : detected[i].name = name}
NameOf(sid) == (CHOOSE en \in Enrolments : en.id = sid).name
Counter(c, sid) == IF sid \in DOMAIN c THEN c[sid] ELSE 0

C1_AtMostOne ==
    \A sid \in IDs : Cardinality(RecordsOf(attendance, sid)) <= 1

C1_Kept ==
    last'.op # "start_registration" =>
        \A sid \in IDs :
            HasRecord(attendance, sid) =>
                RowsOf(attendance', sid) = RowsOf(attendance, sid)

\* C1: between two start_registration calls the attendance table never holds
\* more than one record of an identity, and no call other than
\* start_registration adds a second record of an identity that has one or
\* removes or alters the one it has.
C1_OneRecordPerSession == [](C1_AtMostOne) /\ [][C1_Kept]_vars

\* A record of A exists and frames matching A kept coming after it.
C1_Witness ==
    /\ last.op = "process_frame"
    /\ HasRecord(attendance, "A")
    /\ Counter(student_frame_counts, "A") > FRAME_THRESHOLD

\* The statement of C2 without its proviso: after k frames since the reset,
\* each of one face matched to X, the counter of X is k and X has a record
\* exactly when k >= FRAME_THRESHOLD.
C2_AsStated ==
    \A sid \in IDs :
        streak.who = sid =>
            /\ Counter(student_frame_counts, sid) = streak.k
            /\ HasRecord(attendance, sid) <=> streak.k >= FRAME_THRESHOLD

\* C2: after k frames since the reset, each of one face matched to X, the
\* counter of X is k; X has no record while k < FRAME_THRESHOLD and, unless
\* the insert made at the FRAME_THRESHOLD-th frame was refused, exactly one
\* record from then on.
C2_CounterAndRecord ==
    \A sid \in IDs :
        streak.who = sid =>
            /\ sid \in DOMAIN student_frame_counts
            /\ student_frame_counts[sid] = streak.k
            /\ streak.k < FRAME_THRESHOLD => ~HasRecord(attendance, sid)
            /\ (streak.k >= FRAME_THRESHOLD /\ sid \notin failed) =>
                  Cardinality(RecordsOf(attendance, sid)) = 1
            /\ sid \in failed => ~HasRecord(attendance, sid)

\* The sixth frame of the streak of A: counter 6, one record.
C2_Witness ==
    /\ streak = [who |-> "A", k |-> FRAME_THRESHOLD + 1]
    /\ student_frame_counts["A"] = FRAME_THRESHOLD + 1
    /\ Cardinality(RecordsOf(attendance, "A")) = 1

\* C3: when start_registration has returned its acknowledgement the
\* attendance table is empty, the in-memory store is the students table row
\* for row, and every loaded identity has counter 0; and a loaded identity
\* has a record only after FRAME_THRESHOLD detections matched it since the
\* reset, whatever it had before the reset.
C3_FreshSession ==
    /\ (last.op = "start_registration" /\ last.status = "ok") =>
          /\ attendance = <<>>
          /\ Len(known_face_encodings) = Len(students)
          /\ Len(known_face_metadata) = Len(students)
          /\ \A i \in 1..Len(students) :
                /\ known_face_metadata[i].id = students[i].student_id
                /\ known_face_metadata[i].name = students[i].student_name
                /\ known_face_encodings[i].x = students[i].encoding_binary.x
          /\ DOMAIN student_frame_counts = IdsOf(students)
          /\ \A sid \in DOMAIN student_frame_counts :
                student_frame_counts[sid] = 0
    /\ \A sid \in DOMAIN student_frame_counts :
          HasRecord(attendance, sid) => hits[sid] >= FRAME_THRESHOLD

\* A had a record when the last reset began and has just been committed
\* again by the fifth match of the new session.
C3_Witness ==
    /\ "A" \in prev
    /\ HasRecord(attendance, "A")
    /\ hits["A"] = FRAME_THRESHOLD
    /\ Counter(student_frame_counts, "A") = FRAME_THRESHOLD

\* C4: a process_frame call that finds no face, or resolves every face to
\* Unknown, changes no counter, nothing of the in-memory store and nothing
\* of the attendance table.
C4_UnknownChangesNothing ==
    [][ (/\ last'.op = "process_frame"
         /\ last'.status = "ok"
         /\ Named(last'.detected, "Unknown") = 1..Len(last'.detected))
        => UNCHANGED <<student_frame_counts, known_face_encodings,
                       known_face_metadata, attendance>> ]_vars

\* A frame of two faces, both Unknown, against a non-empty store with a
\* counter under way.
C4_Witness ==
    /\ last.op = "process_frame" /\ last.status = "ok"
    /\ last.ndets = 2
    /\ Named(last.detected, "Unknown") = {1, 2}
    /\ Len(known_face_encodings) > 0
    /\ \E sid \in DOMAIN student_frame_counts : student_frame_counts[sid] > 0

C5_RemoveKeepsRecords ==
    last'.op = "delete_student" => UNCHANGED <<attendance, memory>>

C5_ReloadExcludes ==
    last.op = "start_registration" =>
        \A sid \in IDs \ IdsOf(students) :
            /\ sid \notin DOMAIN student_frame_counts
            /\ \A i \in 1..Len(known_face_metadata) :
                  known_face_metadata[i].id # sid

\* C5: delete_student leaves the attendance table (and so a committed record
\* of the removed identity) as it was, and after the next start_registration
\* an identity absent from the students table is in neither the in-memory
\* store nor the counter map.
C5_RemoveThenReload == [](C5_ReloadExcludes) /\ [][C5_RemoveKeepsRecords]_vars

\* A was committed, then removed, and the reset that followed has run.
C5_Witness ==
    /\ last.op = "start_registration" /\ last.status = "ok"
    /\ "A" \in prev
    /\ "A" \notin IdsOf(students)

\* C8: when an attendance insert of a process_frame call is refused, the
\* call still returns its detected list with one entry per face, every
\* matched face of the frame is counted, the records the table held stay as
\* they were, and the refused identity gets no record.
C8_InsertFailureAbsorbed ==
    [][ (last'.op = "process_frame" /\ last'.failedAt # {}) =>
          /\ last'.status = "ok"
          /\ Len(last'.detected) = last'.ndets
          /\ \A sid \in DOMAIN student_frame_counts :
                student_frame_counts'[sid] =
                    student_frame_counts[sid]
                    + Cardinality(Named(last'.detected, NameOf(sid)))
          /\ Len(attendance') >= Len(attendance)
          /\ SubSeq(attendance', 1, Len(attendance)) = attendance
          /\ \A i \in last'.failedAt :
                \A j \in 1..Len(attendance') :
                    attendance'[j].student_name # last'.detected[i].name ]_vars

\* The insert at the first face of a two-face frame was refused and the
\* second face was still matched and reported.
C8_Witness ==
    /\ last.op = "process_frame" /\ last.status = "ok"
    /\ last.failedAt = {1}
    /\ last.ndets = 2 /\ Len(last.detected) = 2
    /\ last.detected[2].name # "Unknown"

MidFrame(p) == pc[p] \in {"match", "store"}

\* C6: with process_frame calls in flight together, no matched detection's
\* increment is lost (every counter equals the number of detections matched
\* to its identity since the reset), no two calls are both between the load
\* and the store of the same counter, and the insert for an identity is
\* attempted at most once between two resets.
C6_IndivisibleIncrement ==
    /\ \A sid \in DOMAIN student_frame_counts :
          student_frame_counts[sid] = hits[sid]
    /\ \A sid \in IDs : attempts[sid] <= 1
    /\ \A p \in PFs : \A q \in PFs \ {p} :
          (pc[p] = "store" /\ pc[q] = "store") => loc[p].r.id # loc[q].r.id

\* P1 has taken A's counter to the threshold and made the insert while P2,
\* called before P1 returned, waits at its await.
C6_Witness ==
    /\ pc["P1"] = "match" /\ loc["P1"].i = 2
    /\ pc["P2"] = "read"
    /\ Counter(student_frame_counts, "A") = FRAME_THRESHOLD
    /\ attempts["A"] = 1
    /\ HasRecord(attendance, "A")

\* C7: no process_frame call is inside its body (past its await and before
\* its return) while a start_registration call is between its first clear
\* and its return; whenever a process_frame call is inside its body the two
\* lists have the same length and the counter keys are the ids of the
\* metadata.
C7_ResetAtomic ==
    \A p \in PFs :
        MidFrame(p) =>
            /\ pc["S"] = "idle"
            /\ Len(known_face_encodings) = Len(known_face_metadata)
            /\ DOMAIN student_frame_counts =
                  {known_face_metadata[i].id : i \in 1..Len(known_face_metadata)}

\* A reset has loaded the first of two rows while a process_frame call,
\* called before it, waits at its await.
C7_Witness ==
    /\ pc["S"] = "load"
    /\ Len(loc["S"].rows) = 1
    /\ Len(known_face_encodings) = 1
    /\ pc["P1"] = "read"

Applied == loc["P1"].dets # <<>>
Away(i) ==
    LET x == loc["P1"].dets[1]
        y == known_face_encodings[i].x
    IN IF x >= y THEN x - y ELSE y - x
Stored == 1..Len(known_face_encodings)

\* C9: a face resolves to an identity exactly when the store is non-empty
\* and some stored encoding is at distance < TOLERANCE; the identity is the
\* one at the lowest index among those at the minimum distance; a face at
\* distance 0 from exactly one stored encoding resolves to it; otherwise
\* (empty store, or minimum distance >= TOLERANCE) the result is Unknown,
\* with no distance when the store is empty.
C9_Matcher ==
    Applied =>
        LET r == loc["P1"].r
        IN /\ r.matched <=> \E i \in Stored : Away(i) < TOLERANCE
           /\ r.matched =>
                 \E i \in Stored :
                    /\ r.id = known_face_metadata[i].id
                    /\ r.name = known_face_metadata[i].name
                    /\ \A j \in Stored : Away(i) <= Away(j)
                    /\ \A j \in 1..(i - 1) : Away(j) > Away(i)
           /\ \A i \in Stored :
                 (Away(i) = 0 /\ \A j \in Stored \ {i} : Away(j) # 0) =>
                     (r.matched /\ r.id = known_face_metadata[i].id)
           /\ ~r.matched => (r.name = "Unknown" /\ r.id = NoId)
           /\ Stored = {} => r.distance = NoDistance

\* Three stored encodings, the first and the last at the same minimum
\* distance under the tolerance: the first is chosen.
C9_Witness ==
    /\ Applied
    /\ Len(known_face_encodings) = 3
    /\ Away(1) = Away(3) /\ Away(1) < Away(2) /\ Away(1) < TOLERANCE
    /\ loc["P1"].r.id = known_face_metadata[1].id

WidthOk(row) == row.encoding_binary.nbytes = EncBytes

RECURSIVE Sound(_)
Sound(tbl) ==
    IF tbl = <<>> THEN <<>>
    ELSE IF WidthOk(Head(tbl)) THEN <<Head(tbl)>> \o Sound(Tail(tbl))
         ELSE Sound(Tail(tbl))

\* C10: after a reload, the store holds exactly the students rows whose
\* encoding is EncBytes long, in order, each with counter 0, and no row of
\* another width.
C10_FaultSkipsOneIdentity ==
    (last.op = "start_registration" /\ last.status \in {"ok", "load_error"}) =>
        LET good == Sound(students)
        IN /\ Len(known_face_metadata) = Len(good)
           /\ Len(known_face_encodings) = Len(good)
           /\ \A i \in 1..Len(good) :
                 /\ i <= Len(known_face_metadata)
                 /\ known_face_metadata[i].id = good[i].student_id
           /\ DOMAIN student_frame_counts = IdsOf(good)
           /\ \A sid \in DOMAIN student_frame_counts :
                 student_frame_counts[sid] = 0

C11_FrameStep ==
    (last'.op = "process_frame" /\ last'.status = "decode_error") =>
        UNCHANGED <<student_frame_counts, known_face_encodings,
                    known_face_metadata, attendance, students>>

C11_EnrolStep ==
    (last'.op = "add_student" /\ last'.status \in {"decode_error", "no_face"}) =>
        UNCHANGED <<students, student_frame_counts, known_face_encodings,
                    known_face_metadata, attendance>>

\* C11: a process_frame call whose upload cannot be decoded returns the
\* decode error and leaves the counters, the in-memory store and the
\* attendance table as they were; an add_student call that returns the
\* decode error or the no-face error leaves the students table as it was.
C11_FailedDecodeChangesNothing == [][C11_FrameStep /\ C11_EnrolStep]_vars

\* An undecodable frame arrived in a session in which A is committed.
C11_Witness ==
    /\ last.op = "process_frame" /\ last.status = "decode_error"
    /\ Counter(student_frame_counts, "A") >= FRAME_THRESHOLD
    /\ HasRecord(attendance, "A")
    /\ Len(known_face_encodings) > 0

\* The statement of C12 as a rule: a frame in which two or more faces
\* resolve to X and which takes the counter of X from below FRAME_THRESHOLD
\* to above it attempts no insert for X.
C12_AsStated ==
    [][ \A sid \in DOMAIN student_frame_counts :
          (/\ last'.op = "process_frame"
           /\ Cardinality(Named(last'.detected, NameOf(sid))) >= 2
           /\ student_frame_counts[sid] < FRAME_THRESHOLD
           /\ student_frame_counts'[sid] > FRAME_THRESHOLD)
          => attempts'[sid] = attempts[sid] ]_vars

\* C12: the threshold is compared after every single increment, also when
\* several faces of one frame resolve to X, so the counter of X never passes
\* FRAME_THRESHOLD unobserved: an identity whose counter is at or above
\* FRAME_THRESHOLD has had exactly one insert attempted since the reset (and
\* has a record unless that insert was refused), and one below it none.
C12_WindowNeverSkipped ==
    \A sid \in DOMAIN student_frame_counts :
        /\ student_frame_counts[sid] >= FRAME_THRESHOLD => attempts[sid] = 1
        /\ student_frame_counts[sid] < FRAME_THRESHOLD => attempts[sid] = 0
        /\ (student_frame_counts[sid] >= FRAME_THRESHOLD /\ sid \notin failed)
              => HasRecord(attendance, sid)

\* A frame with two faces of A took A's counter from 4 to 6, and the insert
\* was made on the way.
C12_Witness ==
    /\ last.op = "process_frame" /\ last.status = "ok"
    /\ Named(last.detected, "Ann") = {1, 2}
    /\ Counter(student_frame_counts, "A") = FRAME_THRESHOLD + 1
    /\ attempts["A"] = 1
    /\ failed = {}
    /\ HasRecord(attendance, "A")

Phase(c) ==
    IF c = 0 THEN 0
    ELSE IF c < FRAME_THRESHOLD THEN 1
    ELSE IF c = FRAME_THRESHOLD THEN 2 ELSE 3

C14_Step ==
    last'.op # "start_registration" =>
        /\ DOMAIN student_frame_counts' = DOMAIN student_frame_counts
        /\ \A sid \in DOMAIN student_frame_counts :
              /\ student_frame_counts'[sid] >= student_frame_counts[sid]
              /\ student_frame_counts'[sid] =
                    student_frame_counts[sid] +
                    (IF last'.op = "process_frame"
                     THEN Cardinality(Named(last'.detected, NameOf(sid)))
                     ELSE 0)
              /\ Phase(student_frame_counts'[sid]) >=
                    Phase(student_frame_counts[sid])

C14_Accumulated ==
    \A sid \in DOMAIN student_frame_counts :
        /\ student_frame_counts[sid] = hits[sid]
        /\ (hits[sid] >= FRAME_THRESHOLD /\ sid \notin failed)
              => HasRecord(attendance, sid)

\* C14: in any call other than start_registration no counter is removed,
\* added or lowered; a counter rises only in a process_frame call, by the
\* number of faces resolved to its identity (so not at all in a frame
\* without that identity), and its phase UNSEEN, ACCUMULATING, COMMITTED,
\* SATURATED never goes back; a counter is the number of matches since the
\* reset, consecutive or not, and FRAME_THRESHOLD of them commit.
C14_MonotoneCounters == [](C14_Accumulated) /\ [][C14_Step]_vars

\* A frame whose only face was Unknown arrived when A's counter was one
\* under the threshold, and the counter is still there.
C14_Witness ==
    /\ last.op = "process_frame" /\ last.status = "ok"
    /\ last.ndets = 1
    /\ last.detected[1].name = "Unknown"
    /\ Counter(student_frame_counts, "A") = FRAME_THRESHOLD - 1
    /\ hits["A"] = FRAME_THRESHOLD - 1

C15_Earned(sid) ==
    /\ sid \in DOMAIN student_frame_counts
    /\ student_frame_counts[sid] >= FRAME_THRESHOLD

\* The statement of C15 without its proviso: while no attendance insert has
\* failed, X has a record exactly when X has a counter at or above
\* FRAME_THRESHOLD.
C15_AsStated ==
    failed = {} =>
        \A sid \in IDs : HasRecord(attendance, sid) <=> C15_Earned(sid)

\* The records are those the table held when the last start_registration
\* call began, and that call has left the memory cleared.
C15_LeftOver(sid) ==
    /\ sid \in prev
    /\ hits[sid] = 0
    /\ student_frame_counts = EmptyDict
    /\ known_face_encodings = <<>>

C15_Appears ==
    \A sid \in IDs :
        (failed' = {} /\ ~HasRecord(attendance, sid) /\ HasRecord(attendance', sid))
        => /\ last'.op = "process_frame"
           /\ Counter(student_frame_counts, sid) < FRAME_THRESHOLD
           /\ C15_Earned(sid)'

\* C15: while no attendance insert has failed, an identity with a counter at
\* or above FRAME_THRESHOLD has a record, and an identity with a record has
\* such a counter unless the record is left over from before a
\* start_registration call that failed after clearing the memory; a record
\* appears in the process_frame call that takes the counter from below
\* FRAME_THRESHOLD to it.
C15_RecordIffThreshold ==
    /\ [](failed = {} =>
            \A sid \in IDs :
                /\ C15_Earned(sid) => HasRecord(attendance, sid)
                /\ HasRecord(attendance, sid) =>
                      (C15_Earned(sid) \/ C15_LeftOver(sid))
                /\ ~(C15_Earned(sid) /\ C15_LeftOver(sid)))
    /\ [][C15_Appears]_vars

\* A and B both at the threshold in a session without a failed insert, both
\* with a record, after a frame that showed the two of them.
C15_Witness ==
    /\ failed = {}
    /\ last.op = "process_frame" /\ last.ndets = 2
    /\ C15_Earned("A") /\ C15_Earned("B")
    /\ student_frame_counts["A"] = FRAME_THRESHOLD
    /\ student_frame_counts["B"] = FRAME_THRESHOLD
    /\ HasRecord(attendance, "A") /\ HasRecord(attendance, "B")

C16_Failed ==
    \A sid \in failed :
        /\ sid \in DOMAIN student_frame_counts
        /\ student_frame_counts[sid] >= FRAME_THRESHOLD
        /\ attempts[sid] = 1
        /\ ~HasRecord(attendance, sid)

C16_Step ==
    last'.op # "start_registration" =>
        \A sid \in failed :
            /\ sid \in failed'
            /\ attempts'[sid] = attempts[sid]
            /\ ~HasRecord(attendance', sid)

\* C16: an identity whose insert at FRAME_THRESHOLD was refused has had that
\* one attempt and no other, has a counter at or above FRAME_THRESHOLD and
\* no record, and no call before the next start_registration attempts an
\* insert for it or gives it a record.
C16_NoRetry == [](C16_Failed) /\ [][C16_Step]_vars

\* A's insert was refused at the fifth match, and a sixth match has come.
C16_Witness ==
    /\ "A" \in failed
    /\ last.op = "process_frame" /\ last.status = "ok"
    /\ last.failedAt = {}
    /\ Named(last.detected, "Ann") # {}
    /\ Counter(student_frame_counts, "A") = FRAME_THRESHOLD + 1
    /\ attempts["A"] = 1
    /\ ~HasRecord(attendance, "A")

MetaIds == {known_face_metadata[i].id : i \in 1..Len(known_face_metadata)}

\* C17: between calls the two lists have the same length, the encoding at
\* an index is the one enrolled for the identity the metadata names at that
\* index, no id is twice in the metadata, the counter keys are the ids of
\* the metadata, and no process_frame call has failed on a counter lookup.
C17_MemoryConsistent ==
    /\ Len(known_face_encodings) = Len(known_face_metadata)
    /\ \A i \in 1..Len(known_face_metadata) :
          LET en == EnrolmentOf(known_face_metadata[i].id)
          IN /\ known_face_metadata[i].name = en.name
             /\ known_face_encodings[i] = frombuffer(Row(en).encoding_binary)
    /\ \A i \in 1..Len(known_face_metadata) :
          \A j \in 1..Len(known_face_metadata) :
              known_face_metadata[i].id = known_face_metadata[j].id => i = j
    /\ DOMAIN student_frame_counts = MetaIds
    /\ last.op = "process_frame" => last.status \in {"ok", "decode_error"}

\* B was loaded before A, A has since been removed from the students table,
\* and a frame has just been matched to each of them.
C17_Witness ==
    /\ Len(known_face_metadata) = 2
    /\ known_face_metadata[1].id = "B"
    /\ "A" \notin IdsOf(students)
    /\ last.op = "process_frame" /\ last.status = "ok"
    /\ Named(last.detected, "Ann") # {} /\ Named(last.detected, "Bob") # {}
    /\ student_frame_counts["A"] > 0 /\ student_frame_counts["B"] > 0

C18_Step ==
    /\ last'.op \in {"add_student", "delete_student"} =>
          UNCHANGED <<student_frame_counts, known_face_encodings,
                      known_face_metadata, attendance>>
    /\ last'.op = "process_frame" =>
          \A sid \in IDs \ MetaIds :
              /\ Named(last'.detected, NameOf(sid)) = {}
              /\ sid \notin DOMAIN student_frame_counts'
              /\ ~HasRecord(attendance, sid) => ~HasRecord(attendance', sid)
    /\ (last'.op = "process_frame" /\ last'.status = "ok") =>
          \A sid \in MetaIds \ IdsOf(students) :
              student_frame_counts'[sid] =
                  student_frame_counts[sid]
                  + Cardinality(Named(last'.detected, NameOf(sid)))

\* C18: add_student and delete_student change neither the in-memory store
\* nor the counters nor the attendance table; a process_frame call resolves
\* no face to an identity that is not in the in-memory store, enrolled since
\* the reset or not, and counts the faces it resolves to an identity of the
\* store that is no longer in the students table.
C18_EnrolRemoveLeaveSession == [][C18_Step]_vars

\* A, removed since the reset, has just been committed by its fifth match,
\* in a frame whose other face, that of B enrolled since the reset, came
\* out Unknown.
C18_Witness ==
    /\ "A" \notin IdsOf(students) /\ "A" \in MetaIds
    /\ "B" \in IdsOf(students) /\ "B" \notin MetaIds
    /\ last.op = "process_frame" /\ last.status = "ok" /\ last.ndets = 2
    /\ Named(last.detected, "Ann") # {}
    /\ Named(last.detected, "Unknown") # {}
    /\ student_frame_counts["A"] = FRAME_THRESHOLD
    /\ HasRecord(attendance, "A")

====
